---- MODULE Spec2Model ----
(***************************************************************************)
(* citrusrules: a command-line tool that fetches named .mdc templates over *)
(* HTTP and writes them into {cwd}/.cursor/rules.                          *)
(*                                                                         *)
(* The model follows src/src/utils.js (getTemplateFilename and the logging *)
(* fetchAndWriteTemplates), src/unnamed/part_005 (the aggregating          *)
(* fetchAndWriteTemplates, which takes a spinner and throws at the end)    *)
(* and the command-line entry point src/unnamed/part_002 (the same code as *)
(* src/bin/cli.js:60-68).  Every await of the code is a step of the model; *)
(* the answers of the HTTP server and of the filesystem are chosen when    *)
(* the awaited call returns.                                               *)
(*                                                                         *)
(* SpecAll runs the entry point that has --all (src/bin/cli.js:1-36), with *)
(* the logging fetchAndWriteTemplates and with the oldest one, which has   *)
(* no lookup object (src/unnamed/part_004).  SpecResolve applies           *)
(* getTemplateFilename and the path computation to single identifiers.     *)
(***************************************************************************)
EXTENDS Integers, Sequences, FiniteSets, TLC

(***************************************************************************)
(* Bounds of the model.                                                    *)
(***************************************************************************)
\* longest request list handed directly to fetchAndWriteTemplates
MaxNames == 2
\* most template flags on one command line
MaxFlags == 2

(***************************************************************************)
(* Data.                                                                   *)
(***************************************************************************)
\* The base URL lives in src/config.js, which is not among the sources; it
\* is one fixed string for the life of the process.
TEMPLATE_URL_BASE == "{baseURL}"

\* a lookup object whose TODO entry is keyed as the other keys are cased
mappingTodoLowerCamel ==
  [ developmentWorkflow |-> "development-workflow",
    errorHandling       |-> "error-handling",
    apiDesign           |-> "api-design",
    componentStandards  |-> "component-standards",
    dbBestPractices     |-> "db-best-practices",
    devopsCiCd          |-> "devops-ci-cd",
    mobileStandards     |-> "mobile-standards",
    testingStrategy     |-> "testing-strategy",
    todoTracking        |-> "TODO-tracking",
    uvPythonProjects    |-> "uv-python-projects" ]

\* a lookup object in which the value of one key is another key
mappingChained ==
  [ developmentWorkflow |-> "devopsCiCd",
    errorHandling       |-> "error-handling",
    apiDesign           |-> "api-design",
    componentStandards  |-> "component-standards",
    dbBestPractices     |-> "db-best-practices",
    devopsCiCd          |-> "devops-ci-cd",
    mobileStandards     |-> "mobile-standards",
    testingStrategy     |-> "testing-strategy",
    TODOTracking        |-> "TODO-tracking",
    uvPythonProjects    |-> "uv-python-projects" ]

\* a lookup object in which two keys were given the same value
mappingCollide ==
  [ developmentWorkflow |-> "development-workflow",
    errorHandling       |-> "error-handling",
    apiDesign           |-> "api-design",
    componentStandards  |-> "component-standards",
    dbBestPractices     |-> "db-best-practices",
    devopsCiCd          |-> "devops-ci-cd",
    mobileStandards     |-> "component-standards",
    testingStrategy     |-> "testing-strategy",
    TODOTracking        |-> "TODO-tracking",
    uvPythonProjects    |-> "uv-python-projects" ]

\* the literal lookup object of getTemplateFilename
mapping ==
  [ developmentWorkflow |-> "development-workflow",
    errorHandling       |-> "error-handling",
    apiDesign           |-> "api-design",
    componentStandards  |-> "component-standards",
    dbBestPractices     |-> "db-best-practices",
    devopsCiCd          |-> "devops-ci-cd",
    mobileStandards     |-> "mobile-standards",
    testingStrategy     |-> "testing-strategy",
    TODOTracking        |-> "TODO-tracking",
    uvPythonProjects    |-> "uv-python-projects" ]

\* the lookup object of the aggregating variant has one more entry
mappingAggregating == mapping @@ [ playwrightTesting |-> "playwright-testing" ]

MappingOf(v) == IF v = "aggregating" THEN mappingAggregating ELSE mapping

\* mapping is an object literal: a property it does not own is looked up in
\* Object.prototype.  The inherited values are functions (an object for
\* __proto__), written here as the strings a template literal makes of them.
ObjectPrototype ==
  ("constructor" :> "function Object() { [native code] }") @@
  ("toString" :> "function toString() { [native code] }") @@
  ("valueOf" :> "function valueOf() { [native code] }") @@
  ("hasOwnProperty" :> "function hasOwnProperty() { [native code] }") @@
  ("__proto__" :> "[object Object]")

Undefined == "<undefined>"

\* mapping[name]
Lookup(v, name) ==
  IF name \in DOMAIN MappingOf(v) THEN MappingOf(v)[name]
  ELSE IF name \in DOMAIN ObjectPrototype THEN ObjectPrototype[name]
  ELSE Undefined

\* a || b
Or(a, b) == IF a # Undefined /\ a # "" THEN a ELSE b

\* a lookup that trusts every name to be a key
getTemplateFilenameNoFallback(v, name) == Lookup(v, name)

\* return mapping[name] || name
getTemplateFilename(v, name) == Or(Lookup(v, name), name)

\* const filename = `${templateName}.mdc`; the oldest variant has no lookup
\* and takes `${name}.mdc`
Filename(v, name) ==
  IF v = "plain" THEN name \o ".mdc" ELSE getTemplateFilename(v, name) \o ".mdc"

\* const url = `${TEMPLATE_URL_BASE}/${filename}`
Url(v, name) == TEMPLATE_URL_BASE \o "/" \o Filename(v, name)

\* identifiers tried in direct calls: one that resolves to itself, one that
\* is a key of the lookup object, and the value that key resolves to
Idents == {"security", "errorHandling", "error-handling"}

\* option keys tried on the command line (keys of program.opts())
ArgvFlags == {"security", "errorHandling", "performance"}

Variants == {"logging", "aggregating"}

\* str.split('-')...: word[0].toUpperCase() + word.slice(1), for the words of
\* the declared flags
Capitalize ==
  [ workflow |-> "Workflow", handling |-> "Handling", design |-> "Design",
    standards |-> "Standards", best |-> "Best", practices |-> "Practices",
    ci |-> "Ci", cd |-> "Cd", tracking |-> "Tracking", python |-> "Python",
    projects |-> "Projects", strict |-> "Strict", commit |-> "Commit",
    strategy |-> "Strategy" ]

\* words.join(sep)
RECURSIVE Join(_, _)
Join(words, sep) ==
  IF Len(words) = 0 THEN ""
  ELSE IF Len(words) = 1 THEN words[1]
  ELSE words[1] \o sep \o Join(Tail(words), sep)

RECURSIVE CapitalizeAll(_)
CapitalizeAll(words) ==
  IF Len(words) = 0 THEN << >>
  ELSE << Capitalize[words[1]] >> \o CapitalizeAll(Tail(words))

\* the long flag of an option, a flag being the sequence of its words
LongFlag(words) == Join(words, "-")

\* the key commander gives an option in program.opts(): the long flag
\* camel-cased (first word as it is, the others capitalized)
OptionKey(words) == words[1] \o Join(CapitalizeAll(Tail(words)), "")

\* the options of the twelve-option entry point
Options12 ==
  { <<"development", "workflow">>, <<"error", "handling">>, <<"performance">>,
    <<"security">>, <<"api", "design">>, <<"component", "standards">>,
    <<"db", "best", "practices">>, <<"devops", "ci", "cd">>,
    <<"mobile", "standards">>, <<"testing", "strategy">>,
    <<"TODO", "tracking">>, <<"uv", "python", "projects">> }

\* the template options of the entry point that has --all
OptionsAll ==
  { <<"feature">>, <<"typescript", "strict">>, <<"git", "commit">>,
    <<"security">>, <<"performance">>, <<"error", "handling">> }

\* a list that stopped at the fourth template
allTemplatesShort == <<"feature", "typescript-strict", "git-commit", "security">>

\* const allTemplates = [...]
allTemplates ==
  <<"feature", "typescript-strict", "git-commit", "security", "performance",
    "error-handling">>

\* every name a run of the model can request
AllNames ==
  Idents \cup ArgvFlags \cup { OptionKey(o) : o \in Options12 \cup OptionsAll }
    \cup { allTemplates[n] : n \in 1..Len(allTemplates) }

\* the files the directory may hold before the call
PreFiles == { Filename(v, n) : v \in Variants, n \in Idents \cup ArgvFlags }

\* the files of the directory a run can name
AllFiles ==
  { Filename(v, n) : v \in Variants \cup {"plain"}, n \in AllNames }

\* contents: what a file held before the call, what the server serves
NoFile == "<absent>"
OldContent == "old"
Truncated == ""
Bodies == {"v1", "v2"}
NoData == "<none>"

\* what axios.get can come back with: a 2xx response carrying the body, or a
\* rejection (non-2xx status, network failure) carrying a message
Responses ==
  { [ok |-> TRUE, data |-> b, message |-> ""] : b \in Bodies } \cup
  { [ok |-> FALSE, data |-> NoData, message |-> m] :
      m \in {"Request failed with status code 404", "Network Error"} }

\* the answer of a server that is up, in a calm world
CalmResponse == [ok |-> TRUE, data |-> "v1", message |-> ""]

\* the answers of a server that can be reached: a body, or a 404
ReachableResponses == { r \in Responses : r.message # "Network Error" }

NoResponse == [ok |-> FALSE, data |-> NoData, message |-> "<not received>"]

\* how fs.writeFile can end: done; refused before the file was opened (the
\* file is untouched); failed after the open that truncates it
WriteResults == {"ok", "EACCES: permission denied", "ENOSPC: no space left on device"}

MkdirError == "EACCES: permission denied, mkdir"
SpinnerError == "Cannot set properties of undefined (setting 'text')"

SeqsUpTo(S, n) == UNION { [1..k -> S] : k \in 0..n }

Distinct(s) == \A a, b \in 1..Len(s) : a # b => s[a] # s[b]

VARIABLES
  cli,             \* which entry point is installed: "twelve" or "all"
  world,           \* "any": fetches and writes may fail; "calm": none does;
                   \* "same": the server gives a second call the answers of the first
  arg,             \* the identifier given to a lone getTemplateFilename call, as path segments
  ret,             \* what that call returned
  caller,          \* "cli": run from the command line; "direct": called as a function
  variant,         \* which fetchAndWriteTemplates is installed
  spinner,         \* whether the call passes the second argument
  opts,            \* program.opts(): the option keys set, in command-line order
  names,           \* the request list
  pc,              \* where the flow of control is
  i,               \* position of the for-of loop in names (1-based)
  st,              \* per entry: its state in the fetch-then-write pipeline
  resp,            \* per entry: what axios.get came back with
  rep,             \* per entry: the outcome reported for it ("none", "ok", "fail")
  dirExists,       \* whether {cwd}/.cursor/rules exists
  parentWritable,  \* whether the directory can be created when absent
  files,           \* the files of .cursor/rules: filename -> content
  dir0,            \* dirExists before the call
  files0,          \* files before the call
  out,             \* the console lines of the logging variant
  successes,       \* successes of the aggregating variant
  errors,          \* errors of the aggregating variant
  gets,            \* the URLs of the GET requests issued, in order
  writes,          \* the entries whose fs.writeFile was started, in order
  thrown,          \* message of the error fetchAndWriteTemplates threw, or ""
  invoked,         \* whether fetchAndWriteTemplates was called
  helpShown,       \* whether program.help() ran
  exitCode,        \* the exit code of the process once pc = "exited"
  run,             \* 1 in the first call of the function, 2 when it is called again
  first            \* how the first call ended, once it is called again

vars == << cli, world, arg, ret, run, first, caller, variant, spinner, opts, names, pc, i, st, resp, rep,
           dirExists, parentWritable, files, dir0, files0, out, successes,
           errors, gets, writes, thrown, invoked, helpShown, exitCode >>

env == << cli, world, arg, ret, run, first, caller, variant, spinner, opts, parentWritable,
         dir0, files0 >>

(***************************************************************************)
(* The state before the tool runs.                                         *)
(***************************************************************************)
\* program.opts() after program.parse(process.argv): one entry per flag given
OptsOf(s) == [k \in 1..Len(s) |-> [key |-> s[k], value |-> TRUE]]

\* a direct call: any list over Idents, duplicates and the empty list included
DirectInit ==
  /\ caller = "direct"
  /\ variant \in Variants
  /\ spinner \in (IF variant = "aggregating" THEN BOOLEAN ELSE {FALSE})
  /\ opts = << >>
  /\ names \in SeqsUpTo(Idents, MaxNames)
  /\ pc = "call"
  /\ invoked = TRUE

\* a run of the command line: each flag at most once, in any order (up to
\* MaxFlags of the flags of ArgvFlags), or any one of the twelve flags alone;
\* the entry points under src/ call fetchAndWriteTemplates(flags), one argument
CliInit ==
  /\ caller = "cli"
  /\ variant = "logging"
  /\ spinner = FALSE
  /\ opts \in { OptsOf(s) : s \in { t \in SeqsUpTo(ArgvFlags, MaxFlags) : Distinct(t) }
                                   \cup { << OptionKey(o) >> : o \in Options12 } }
  /\ names = << >>
  /\ pc = "cli"
  /\ invoked = FALSE

\* a run of the entry point that has --all: up to MaxFlags of its seven
\* flags, each at most once, in any order
CliAllInit ==
  /\ caller = "cli"
  /\ variant \in {"logging", "plain"}
  /\ spinner = FALSE
  /\ opts \in { OptsOf(s) :
                  s \in { t \in SeqsUpTo({ OptionKey(o) : o \in OptionsAll } \cup {"all"}, MaxFlags) :
                            Distinct(t) } }
  /\ names = << >>
  /\ pc = "cli"
  /\ invoked = FALSE

\* the working directory: .cursor/rules is absent (and can or cannot be
\* created), or present with at most one of the files already in it
FsInit ==
  /\ dir0 \in BOOLEAN
  /\ parentWritable \in (IF dir0 THEN {TRUE} ELSE BOOLEAN)
  /\ files0 \in { [f \in AllFiles |-> IF f \in P THEN OldContent ELSE NoFile] :
                    P \in { Q \in SUBSET PreFiles : Cardinality(Q) <= (IF dir0 THEN 1 ELSE 0) } }
  /\ dirExists = dir0
  /\ files = files0

\* no lone call of getTemplateFilename is under way
ResolveIdle ==
  /\ arg = << >>
  /\ ret = ""

\* nothing to tell of a first call yet
NoFirst == [files |-> << >>, resp |-> << >>, st |-> << >>, out |-> << >>, errors |-> << >>]

RunInit ==
  /\ run = 1
  /\ first = NoFirst
  /\ i = 1
  /\ st = [k \in 1..Len(names) |-> "Requested"]
  /\ resp = [k \in 1..Len(names) |-> NoResponse]
  /\ rep = [k \in 1..Len(names) |-> "none"]
  /\ out = << >>
  /\ successes = << >>
  /\ errors = << >>
  /\ gets = << >>
  /\ writes = << >>
  /\ thrown = ""
  /\ helpShown = FALSE
  /\ exitCode = 0

Init ==
  /\ cli = "twelve"
  /\ world = "any"
  /\ ResolveIdle
  /\ (DirectInit \/ CliInit)
  /\ FsInit
  /\ RunInit

InitAll ==
  /\ cli = "all"
  /\ world = "calm"
  /\ ResolveIdle
  /\ CliAllInit
  /\ FsInit
  /\ RunInit

(***************************************************************************)
(* The command-line entry point.                                           *)
(***************************************************************************)
\* if (opts.all), in the entry point that has --all
AllSelected(o) ==
  cli = "all" /\ \E n \in 1..Len(o) : o[n].key = "all" /\ o[n].value

\* const flags = Object.keys(opts).filter((k) => opts[k]), and
\* filter((k) => opts[k] && k !== 'all') in the entry point that has --all; a
\* boolean option is a key of opts only when its flag was given, with the
\* value true
Flags(o) ==
  LET kept == SelectSeq(o, LAMBDA e : e.value /\ (cli = "all" => e.key # "all"))
  IN  [k \in 1..Len(kept) |-> kept[k].key]

\* the list handed to fetchAndWriteTemplates
RequestList(o) == IF AllSelected(o) THEN allTemplates ELSE Flags(o)

\* a test that never sends the user to the help text
NoFlagsNever(flags) == FALSE

\* if (flags.length === 0)
NoFlags(flags) == Len(flags) = 0

\* program.help() prints the usage text and ends the process
CliHelp ==
  /\ pc = "cli"
  /\ ~AllSelected(opts)
  /\ NoFlags(Flags(opts))
  /\ helpShown' = TRUE
  /\ exitCode' = 0
  /\ pc' = "exited"
  /\ UNCHANGED << env, names, i, st, resp, rep, dirExists, files, out,
                  successes, errors, gets, writes, thrown, invoked >>

\* await fetchAndWriteTemplates(allTemplates) when --all is selected, else
\* await fetchAndWriteTemplates(flags) when there are flags
CliInvoke ==
  /\ pc = "cli"
  /\ AllSelected(opts) \/ ~NoFlags(Flags(opts))
  /\ names' = RequestList(opts)
  /\ st' = [k \in 1..Len(RequestList(opts)) |-> "Requested"]
  /\ resp' = [k \in 1..Len(RequestList(opts)) |-> NoResponse]
  /\ rep' = [k \in 1..Len(RequestList(opts)) |-> "none"]
  /\ invoked' = TRUE
  /\ pc' = "call"
  /\ UNCHANGED << env, i, dirExists, files, out, successes, errors, gets,
                  writes, thrown, helpShown, exitCode >>

\* the awaited call is the last statement of the module: the process ends
\* with code 0 when it returns and with code 1 when its promise rejects
ExitCodeOf(p) == IF p = "threw" THEN 1 ELSE 0

CliExit ==
  /\ caller = "cli"
  /\ pc \in {"returned", "threw"}
  /\ exitCode' = ExitCodeOf(pc)
  /\ pc' = "exited"
  /\ UNCHANGED << env, names, i, st, resp, rep, dirExists, files, out,
                  successes, errors, gets, writes, thrown, invoked, helpShown >>

(***************************************************************************)
(* fetchAndWriteTemplates.                                                 *)
(***************************************************************************)
\* a mkdir that is not recursive and does not create what is missing
CanEnsureDirExistingOnly == dirExists

\* a plain mkdir: it fails on a directory that is there already
CanEnsureDirAbsentOnly == ~dirExists /\ parentWritable

\* fs.ensureDir(dest) succeeds when the directory is there or can be made
CanEnsureDir == dirExists \/ parentWritable

\* an entry that goes to the loop without making the directory
EnsureDirSkipped ==
  /\ pc = "call"
  /\ dirExists' = dirExists
  /\ pc' = "loop"
  /\ thrown' = thrown
  /\ UNCHANGED << env, names, i, st, resp, rep, files, out, successes, errors,
                  gets, writes, invoked, helpShown, exitCode >>

\* const dest = ...; await fs.ensureDir(dest);  -- before the loop and
\* outside its try block: a rejection leaves the function at once
EnsureDir ==
  /\ pc = "call"
  /\ IF CanEnsureDir
       THEN /\ dirExists' = TRUE
            /\ pc' = "loop"
            /\ thrown' = thrown
       ELSE /\ dirExists' = dirExists
            /\ pc' = "threw"
            /\ thrown' = MkdirError
  /\ UNCHANGED << env, names, i, st, resp, rep, files, out, successes, errors,
                  gets, writes, invoked, helpShown, exitCode >>

\* a success report put before the earlier ones (unshift for push)
ReportSuccessFirst(k, fn) ==
  /\ rep' = [rep EXCEPT ![k] = "ok"]
  /\ IF variant = "aggregating"
       THEN /\ successes' = << fn >> \o successes
            /\ out' = out
       ELSE /\ out' = << [ok |-> TRUE, filename |-> fn, message |-> ""] >> \o out
            /\ successes' = successes
  /\ errors' = errors

\* console.log(chalk.green(...)) / successes.push(filename)
ReportSuccess(k, fn) ==
  /\ rep' = [rep EXCEPT ![k] = "ok"]
  /\ IF variant = "aggregating"
       THEN /\ successes' = Append(successes, fn)
            /\ out' = out
       ELSE /\ out' = Append(out, [ok |-> TRUE, filename |-> fn, message |-> ""])
            /\ successes' = successes
  /\ errors' = errors

\* an empty catch block: the failure is swallowed
ReportNothing(k, fn, msg) == UNCHANGED << rep, out, errors, successes >>

\* a failure report put before the earlier reports (unshift for push)
ReportFailureFirst(k, fn, msg) ==
  /\ rep' = [rep EXCEPT ![k] = "fail"]
  /\ IF variant = "aggregating"
       THEN /\ errors' = << [filename |-> fn, error |-> msg] >> \o errors
            /\ out' = out
       ELSE /\ out' = << [ok |-> FALSE, filename |-> fn, message |-> msg] >> \o out
            /\ errors' = errors
  /\ successes' = successes

\* console.error(chalk.red(...)) / errors.push({ filename, error })
ReportFailure(k, fn, msg) ==
  /\ rep' = [rep EXCEPT ![k] = "fail"]
  /\ IF variant = "aggregating"
       THEN /\ errors' = Append(errors, [filename |-> fn, error |-> msg])
            /\ out' = out
       ELSE /\ out' = Append(out, [ok |-> FALSE, filename |-> fn, message |-> msg])
            /\ errors' = errors
  /\ successes' = successes

\* a catch block that lets the error through instead of going on
CatchRethrow(k, fn, msg) ==
  /\ ReportFailure(k, fn, msg)
  /\ i' = i
  /\ pc' = "threw"
  /\ thrown' = msg

\* a catch block that reports the failure and takes the same entry again
CatchRetry(k, fn, msg) ==
  /\ ReportFailure(k, fn, msg)
  /\ i' = i
  /\ pc' = "loop"
  /\ thrown' = thrown

\* a catch block that reports the failure and leaves the loop (break)
CatchBreak(k, fn, msg) ==
  /\ ReportFailure(k, fn, msg)
  /\ i' = Len(names) + 1
  /\ pc' = "loop"
  /\ thrown' = thrown

\* a catch block that reports the failure and passes over the next entry
CatchSkipNext(k, fn, msg) ==
  /\ ReportFailure(k, fn, msg)
  /\ i' = i + 2
  /\ pc' = "loop"
  /\ thrown' = thrown

\* catch (err) { ... }: the failure is reported and the loop goes on
Catch(k, fn, msg) ==
  /\ ReportFailure(k, fn, msg)
  /\ i' = i + 1
  /\ pc' = "loop"
  /\ thrown' = thrown

\* a loop head that issues the GET of the next entry too, without waiting
BeginItemAhead ==
  /\ pc = "loop"
  /\ i <= Len(names)
  /\ gets' = IF i < Len(names)
               THEN gets \o << Url(variant, names[i]), Url(variant, names[i + 1]) >>
               ELSE Append(gets, Url(variant, names[i]))
  /\ st' = [k \in DOMAIN st |-> IF k \in {i, i + 1} THEN "Fetching" ELSE st[k]]
  /\ pc' = "fetching"
  /\ thrown' = thrown
  /\ UNCHANGED << env, names, i, resp, rep, dirExists, files, out, successes,
                  errors, writes, invoked, helpShown, exitCode >>

\* the loop head with an entry left: resolve the name, build the URL, (in
\* the aggregating variant) set spinner.text, and issue the GET
BeginItem ==
  /\ pc = "loop"
  /\ i <= Len(names)
  /\ IF variant = "aggregating" /\ ~spinner
       THEN /\ pc' = "threw"
            /\ thrown' = SpinnerError
            /\ UNCHANGED << st, gets >>
       ELSE /\ gets' = Append(gets, Url(variant, names[i]))
            /\ st' = [st EXCEPT ![i] = "Fetching"]
            /\ pc' = "fetching"
            /\ thrown' = thrown
  /\ UNCHANGED << env, names, i, resp, rep, dirExists, files, out, successes,
                  errors, writes, invoked, helpShown, exitCode >>

\* an axios that resolves whatever the status
ResolvesAlways(r) == TRUE

\* axios.get resolves on a 2xx response and rejects otherwise
Resolves(r) == r.ok

\* const res = await axios.get(url): on a response the write is started, on
\* a rejection control goes to the catch block
FetchReturn ==
  /\ pc = "fetching"
  /\ \E r \in Responses :
       /\ world = "calm" => r = CalmResponse
       /\ world = "same" => r \in ReachableResponses
       /\ (world = "same" /\ run = 2) => r = first.resp[i]
       /\ resp' = [resp EXCEPT ![i] = r]
       /\ IF Resolves(r)
            THEN /\ st' = [st EXCEPT ![i] = "Writing"]
                 /\ writes' = Append(writes, i)
                 /\ pc' = "writing"
                 /\ UNCHANGED << i, rep, out, successes, errors, thrown >>
            ELSE /\ st' = [st EXCEPT ![i] = "FetchFailed"]
                 /\ Catch(i, Filename(variant, names[i]), r.message)
                 /\ writes' = writes
  /\ UNCHANGED << env, names, dirExists, files, gets, invoked, helpShown, exitCode >>

\* a write of the first entry's data
FirstContent(k) == resp[1].data

\* res.data, the second argument of fs.writeFile
FileContent(k) == resp[k].data

\* a write that leaves an existing file alone
WriteFileNoOverwrite(fn, content) ==
  IF files[fn] = NoFile THEN [files EXCEPT ![fn] = content] ELSE files

\* fs.writeFile(path.join(dest, filename), content, 'utf8') that succeeds
WriteFile(fn, content) == [files EXCEPT ![fn] = content]

\* a failed write that removes what it could not write
WriteFileFailedUnlink(fn, w) == [files EXCEPT ![fn] = NoFile]

\* a failed write: refused before the open, the file is untouched; failed
\* after the open, the file is there and empty
WriteFileFailed(fn, w) ==
  IF w = "EACCES: permission denied" THEN files ELSE [files EXCEPT ![fn] = Truncated]

\* await fs.writeFile(...) returns
WriteReturn ==
  /\ pc = "writing"
  /\ \E w \in WriteResults :
       LET fn == Filename(variant, names[i]) IN
       /\ world = "calm" => w = "ok"
       /\ IF w = "ok"
         THEN /\ files' = WriteFile(fn, FileContent(i))
              /\ st' = [st EXCEPT ![i] = "Written"]
              /\ ReportSuccess(i, fn)
              /\ i' = i + 1
              /\ pc' = "loop"
              /\ thrown' = thrown
         ELSE /\ files' = WriteFileFailed(fn, w)
              /\ st' = [st EXCEPT ![i] = "WriteFailed"]
              /\ Catch(i, fn, w)
  /\ UNCHANGED << env, names, resp, dirExists, gets, writes, invoked,
                  helpShown, exitCode >>

\* errors.map(e => `${e.filename}: ${e.error}`).join(', ')
RECURSIVE ErrorMessage(_)
ErrorMessage(es) ==
  IF Len(es) = 0 THEN ""
  ELSE IF Len(es) = 1 THEN es[1].filename \o ": " \o es[1].error
  ELSE es[1].filename \o ": " \o es[1].error \o ", " \o ErrorMessage(Tail(es))

\* the loop is over: the logging variant returns; the aggregating variant
\* throws the collected errors if there are any and returns successes if not
LoopEnd ==
  /\ pc = "loop"
  /\ i > Len(names)
  /\ IF variant = "aggregating" /\ Len(errors) > 0
       THEN /\ pc' = "threw"
            /\ thrown' = ErrorMessage(errors)
       ELSE /\ pc' = "returned"
            /\ thrown' = thrown
  /\ UNCHANGED << env, names, i, st, resp, rep, dirExists, files, out,
                  successes, errors, gets, writes, invoked, helpShown, exitCode >>

Next ==
  \/ CliHelp
  \/ CliInvoke
  \/ EnsureDir
  \/ BeginItem
  \/ FetchReturn
  \/ WriteReturn
  \/ LoopEnd
  \/ CliExit

Spec == Init /\ [][Next]_vars

\* every step that can be taken is taken in the end: the statements between
\* two awaits run to completion, and every awaited promise (ensureDir,
\* axios.get, writeFile) is settled in the end, with a value or with an error
Fairness == WF_vars(Next)

SpecLive == Spec /\ Fairness

\* the entry point that has --all, server and disk in order
SpecAll == InitAll /\ [][Next]_vars

\* the command line of the twelve options given any of its flags, each at most
\* once, in any order (up to MaxFlags of them), server and disk in order
InitPairs ==
  /\ cli = "twelve"
  /\ world = "calm"
  /\ ResolveIdle
  /\ caller = "cli"
  /\ variant = "logging"
  /\ spinner = FALSE
  /\ opts \in { OptsOf(s) :
                  s \in { t \in SeqsUpTo({ OptionKey(o) : o \in Options12 }, MaxFlags) :
                            Distinct(t) } }
  /\ names = << >>
  /\ pc = "cli"
  /\ invoked = FALSE
  /\ FsInit
  /\ RunInit

SpecPairs == InitPairs /\ [][Next]_vars

(***************************************************************************)
(* The same call made twice.                                               *)
(***************************************************************************)
\* the caller calls fetchAndWriteTemplates again, with the same list, once the
\* first call has returned or thrown: a new activation of the function, on
\* the directory as the first call left it
CallAgain ==
  /\ caller = "direct"
  /\ run = 1
  /\ pc \in {"returned", "threw"}
  /\ run' = 2
  /\ first' = [files |-> files, resp |-> resp, st |-> st, out |-> out, errors |-> errors]
  /\ pc' = "call"
  /\ i' = 1
  /\ st' = [k \in 1..Len(names) |-> "Requested"]
  /\ resp' = [k \in 1..Len(names) |-> NoResponse]
  /\ rep' = [k \in 1..Len(names) |-> "none"]
  /\ out' = << >>
  /\ successes' = << >>
  /\ errors' = << >>
  /\ gets' = << >>
  /\ writes' = << >>
  /\ thrown' = ""
  /\ UNCHANGED << cli, world, arg, ret, caller, variant, spinner, opts, names,
                  dirExists, parentWritable, files, dir0, files0, invoked,
                  helpShown, exitCode >>

\* direct calls against a server that can be reached and whose answers do not
\* change between the first call and the second; the directory is absent, or
\* present with security.mdc in it
InitTwice ==
  /\ cli = "twelve"
  /\ world = "same"
  /\ ResolveIdle
  /\ DirectInit
  /\ FsInit
  /\ \A f \in AllFiles : files0[f] # NoFile <=> (dir0 /\ f = "security.mdc")
  /\ RunInit

NextTwice ==
  \/ EnsureDir
  \/ BeginItem
  \/ FetchReturn
  \/ WriteReturn
  \/ LoopEnd
  \/ CallAgain

SpecTwice == InitTwice /\ [][NextTwice]_vars

(***************************************************************************)
(* getTemplateFilename and the path of the written file, on their own.     *)
(***************************************************************************)
\* const dest = path.resolve(process.cwd(), '.cursor/rules')
dest == <<"{cwd}", ".cursor", "rules">>

\* path normalization: '.' is dropped and '..' drops the segment before it
RECURSIVE Normalize(_, _)
Normalize(done, todo) ==
  IF Len(todo) = 0 THEN done
  ELSE IF todo[1] = "." THEN Normalize(done, Tail(todo))
  ELSE IF todo[1] = ".." /\ Len(done) > 0 THEN Normalize(SubSeq(done, 1, Len(done) - 1), Tail(todo))
  ELSE Normalize(Append(done, todo[1]), Tail(todo))

\* the segments of `${templateName}.mdc`, given those of templateName
FilenameSegments(segs) ==
  IF Len(segs) = 0 THEN << ".mdc" >>
  ELSE [segs EXCEPT ![Len(segs)] = segs[Len(segs)] \o ".mdc"]

\* path.join(dest, filename), as segments
WritePath(segs) == Normalize(dest, FilenameSegments(segs))

\* identifiers as sequences of path segments ('/' between them): every name a
\* run can request, the values of the lookup object, names of the tests and
\* of the specification's scenarios, inherited property names, and strings
\* with a separator in them
ResolveInputs ==
  { << n >> : n \in AllNames \cup DOMAIN mappingAggregating \cup DOMAIN ObjectPrototype
                 \cup { mappingAggregating[k] : k \in DOMAIN mappingAggregating }
                 \cup {"agent", "dev-workflow", "all", ""} }
    \cup { <<"..", "evil">>, <<"..", "..", "evil">>, <<"sub", "evil">> }

\* the identifier itself
NameOf(segs) == Join(segs, "/")

\* the segments of a string the model knows
SegmentsOf(str) ==
  IF \E segs \in ResolveInputs : NameOf(segs) = str
    THEN CHOOSE segs \in ResolveInputs : NameOf(segs) = str
    ELSE << str >>

InitResolve ==
  /\ cli = "twelve"
  /\ world = "any"
  /\ arg \in ResolveInputs
  /\ ret = ""
  /\ caller = "direct"
  /\ variant \in Variants
  /\ spinner = FALSE
  /\ opts = << >>
  /\ names = << >>
  /\ pc = "resolve"
  /\ invoked = FALSE
  /\ dir0 = TRUE
  /\ parentWritable = TRUE
  /\ files0 = [f \in AllFiles |-> NoFile]
  /\ dirExists = dir0
  /\ files = files0
  /\ RunInit

\* const templateName = getTemplateFilename(name)
ResolveCall ==
  /\ pc = "resolve"
  /\ ret' = getTemplateFilename(variant, NameOf(arg))
  /\ pc' = "resolved"
  /\ UNCHANGED << cli, world, arg, run, first, caller, variant, spinner, opts, names, i, st,
                  resp, rep, dirExists, parentWritable, files, dir0, files0, out,
                  successes, errors, gets, writes, thrown, invoked, helpShown,
                  exitCode >>

\* getTemplateFilename(getTemplateFilename(name)): the value returned is
\* given back to the function (as a property key it is taken as its string)
ResolveAgain ==
  /\ pc = "resolved"
  /\ ret' = getTemplateFilename(variant, ret)
  /\ pc' = "resolvedTwice"
  /\ UNCHANGED << cli, world, arg, run, first, caller, variant, spinner, opts, names, i, st,
                  resp, rep, dirExists, parentWritable, files, dir0, files0, out,
                  successes, errors, gets, writes, thrown, invoked, helpShown,
                  exitCode >>

NextResolve ==
  \/ ResolveCall
  \/ ResolveAgain

SpecResolve == InitResolve /\ [][NextResolve]_vars

(***************************************************************************)
(* Vocabulary of the properties.                                           *)
(***************************************************************************)
Entries == 1..Len(names)

FileOf(k) == Filename(variant, names[k])

Terminal == {"FetchFailed", "WriteFailed", "Written"}

\* fetchAndWriteTemplates was called and is over (returned or threw)
Finished == invoked /\ pc \in {"returned", "threw", "exited"}

\* no later entry started a write of the same file
LastWriteOf(k) == \A j \in Entries : j > k /\ FileOf(j) = FileOf(k) => st[j] \notin {"Writing", "WriteFailed", "Written"}

Range(s) == { s[n] : n \in 1..Len(s) }

\* entry k got the success report: the k-th console line of the logging
\* variant, an element of successes in the aggregating one
ReportedOk(k) ==
  /\ rep[k] = "ok"
  /\ IF variant = "aggregating"
       THEN FileOf(k) \in Range(successes)
       ELSE k <= Len(out) /\ out[k] = [ok |-> TRUE, filename |-> FileOf(k), message |-> ""]

\* entry k got a failure report naming its file and carrying the message msg
ReportedFail(k, msg) ==
  /\ rep[k] = "fail"
  /\ IF variant = "aggregating"
       THEN [filename |-> FileOf(k), error |-> msg] \in Range(errors)
       ELSE k <= Len(out) /\ out[k] = [ok |-> FALSE, filename |-> FileOf(k), message |-> msg]

NumReports == Len(out) + Len(successes) + Len(errors)

Max(S) == CHOOSE m \in S : \A n \in S : n <= m

(***************************************************************************)
(* C1..C10.                                                                *)
(***************************************************************************)

\* C1: once the call is over, an entry A whose fetch failed is reported as
\* failed, and every other entry B of the list was still attempted: B reached
\* a terminal state of its own, and if B was fetched and written then B is
\* reported as succeeded and B's file holds the data fetched for B (unless a
\* later entry wrote the same file).
C1_FetchFailureIsolated ==
  Finished =>
    \A a, b \in Entries :
      (st[a] = "FetchFailed" /\ a # b) =>
        /\ ReportedFail(a, resp[a].message)
        /\ st[b] \in Terminal
        /\ gets[b] = Url(variant, names[b])
        /\ st[b] = "Written" =>
             /\ ReportedOk(b)
             /\ dirExists
             /\ LastWriteOf(b) => files[FileOf(b)] = resp[b].data

\* C1 witness: a list whose first entry failed to fetch and whose second,
\* different, entry was fetched and written
C1_Witness ==
  /\ Finished
  /\ \E a, b \in Entries :
       /\ a < b
       /\ names[a] # names[b]
       /\ st[a] = "FetchFailed"
       /\ st[b] = "Written"
       /\ files[FileOf(b)] = resp[b].data

C3_ExitCodeReflectsFailures ==
  (caller = "cli" /\ invoked /\ pc = "exited") =>
    ((exitCode = 0) <=> (\A k \in Entries : st[k] = "Written"))

\* C4: once the call is over, an entry A whose write failed is reported as
\* failed with the write's message, and every other entry was processed to a
\* terminal state and reported as what happened to it: success exactly when
\* it was fetched and written, failure with its own message otherwise; there
\* is one report per entry.
C4_WriteFailureIsolated ==
  Finished =>
    \A a \in Entries :
      st[a] = "WriteFailed" =>
        /\ resp[a].ok
        /\ \E w \in WriteResults \ {"ok"} : ReportedFail(a, w)
        /\ NumReports = Len(names)
        /\ \A b \in Entries \ {a} :
             /\ st[b] \in Terminal
             /\ st[b] = "Written" <=> ReportedOk(b)
             /\ st[b] = "FetchFailed" <=> (~resp[b].ok /\ ReportedFail(b, resp[b].message))
             /\ st[b] = "WriteFailed" <=> (resp[b].ok /\ \E w \in WriteResults \ {"ok"} : ReportedFail(b, w))

\* C4 witness: the first entry's write failed and the second entry was written
C4_Witness ==
  /\ Finished
  /\ \E a, b \in Entries :
       /\ a < b
       /\ st[a] = "WriteFailed"
       /\ st[b] = "Written"
       /\ ReportedOk(b)

\* the entries of identifier id whose fetch succeeded
FetchedOk(id) == { k \in Entries : names[k] = id /\ resp[k].ok }

\* C5 (as claimed): once the call is over, an identifier that appears twice
\* and was fetched with success at least once has its file, holding the body
\* of the last successful fetch for it.
C5_LastSuccessfulFetchWins ==
  Finished =>
    \A a, b \in Entries :
      (a < b /\ names[a] = names[b] /\ FetchedOk(names[a]) # {}) =>
        files[FileOf(a)] = resp[Max(FetchedOk(names[a]))].data

\* the entries that started a write of file f (their fetch succeeded)
WritersOf(f) == { k \in Entries : FileOf(k) = f /\ resp[k].ok }

\* C5 (amended): once the call is over, for an identifier that appears twice
\* there is the one path {canonicalName}.mdc; if no fetch for that file
\* succeeded the file is as it was before the call; otherwise, provided the
\* write that followed the last successful fetch for that file succeeded,
\* the file holds the body of that fetch.
C5_LastWrittenFetchWins ==
  Finished =>
    \A a, b \in Entries :
      (a < b /\ names[a] = names[b]) =>
        LET f == FileOf(a) IN
        /\ FileOf(b) = f
        /\ WritersOf(f) = {} => files[f] = files0[f]
        /\ (WritersOf(f) # {} /\ st[Max(WritersOf(f))] = "Written") =>
             files[f] = resp[Max(WritersOf(f))].data

\* C5 witness: the same identifier twice, fetched as two different bodies and
\* written twice; the file holds the second
C5_Witness ==
  /\ Finished
  /\ Len(names) >= 2
  /\ names[1] = names[2]
  /\ st[1] = "Written" /\ st[2] = "Written"
  /\ resp[1].data # resp[2].data
  /\ LastWriteOf(2)
  /\ files[FileOf(2)] = resp[2].data

\* C6: a write is started only for an entry whose own fetch came back with
\* success, and a file none of whose entries was fetched with success is as
\* it was before the call.
C6_NoWriteWithoutFetch ==
  /\ \A n \in 1..Len(writes) : resp[writes[n]].ok
  /\ \A k \in Entries : st[k] \in {"Writing", "WriteFailed", "Written"} => resp[k].ok
  /\ \A k \in Entries : st[k] = "FetchFailed" => k \notin Range(writes)
  /\ \A f \in AllFiles : WritersOf(f) = {} => files[f] = files0[f]

\* C6 witness: the fetch failed for a file that was there before the call,
\* and the file is unchanged
C6_Witness ==
  /\ Finished
  /\ \E k \in Entries :
       /\ st[k] = "FetchFailed"
       /\ files0[FileOf(k)] = OldContent
       /\ files[FileOf(k)] = OldContent

\* C7 (as claimed): once a call of the logging variant is over there is one
\* console line per entry of the list, the success line for an entry exactly
\* when it was fetched and written and the failure line otherwise.
C7_OneReportPerEntry ==
  (Finished /\ variant = "logging") =>
    /\ Len(out) = Len(names)
    /\ \A k \in Entries :
         /\ ReportedOk(k) <=> st[k] = "Written"
         /\ st[k] # "Written" => \E m \in { r.message : r \in Responses } \cup WriteResults : ReportedFail(k, m)

\* C8 (as claimed): when the directory is absent and cannot be created, the
\* call does not throw: once it is over every entry has a failure report.
C8_MkdirFailureReportedPerItem ==
  (invoked /\ ~dir0 /\ ~parentWritable /\ pc # "call") =>
    /\ pc # "threw"
    /\ thrown = ""
    /\ Finished => \A k \in Entries : rep[k] = "fail"

\* C9 (as claimed): a call with the empty list issues no GET and leaves the
\* files and the directory as they were.
C9_EmptyListChangesNothing ==
  (invoked /\ Len(names) = 0) =>
    /\ gets = << >>
    /\ files = files0
    /\ dirExists = dir0

\* C9 (amended): a call with the empty list issues no GET, starts no write,
\* reports nothing and leaves every file as it was; the directory exists when
\* the call returns (it is created if it was absent), and the call throws
\* only when the directory was absent and could not be created.
C9_EmptyListOnlyEnsuresDir ==
  (invoked /\ Len(names) = 0) =>
    /\ gets = << >>
    /\ writes = << >>
    /\ NumReports = 0
    /\ files = files0
    /\ pc \in {"call", "loop", "returned", "threw"}
    /\ pc \in {"loop", "returned"} => dirExists
    /\ pc = "threw" => (~dir0 /\ ~parentWritable /\ ~dirExists /\ thrown = MkdirError)

\* C9 witness: the empty list, the directory absent before and present after
C9_Witness ==
  /\ invoked
  /\ Len(names) = 0
  /\ pc = "returned"
  /\ ~dir0
  /\ dirExists
  /\ files = files0

\* C10: a command line with no template flag ends in the help text without
\* calling fetchAndWriteTemplates: no GET, no file or directory changed; and
\* whenever the command line calls fetchAndWriteTemplates the list is not
\* empty.
C10_HelpWhenNoFlags ==
  caller = "cli" =>
    /\ (Len(opts) = 0 /\ pc # "cli") =>
         /\ helpShown
         /\ pc = "exited"
    /\ helpShown =>
         /\ Len(opts) = 0
         /\ ~invoked
         /\ gets = << >>
         /\ writes = << >>
         /\ files = files0
         /\ dirExists = dir0
    /\ invoked => (Len(names) > 0 /\ ~helpShown)

\* C10 witness: the help text was shown for an empty command line
C10_Witness ==
  /\ caller = "cli"
  /\ Len(opts) = 0
  /\ helpShown
  /\ pc = "exited"
  /\ ~invoked

(***************************************************************************)
(* C11..C20.                                                               *)
(***************************************************************************)

\* the moves of one entry.  Resolved and Fetched are passed inside one step:
\* the name is resolved in the step that issues the GET, and a fetched body
\* is handed to writeFile in the step that receives it
EntryStep(k) ==
  \/ st'[k] = st[k]
  \/ st[k] = "Requested" /\ st'[k] = "Fetching"
  \/ st[k] = "Fetching" /\ st'[k] = "FetchFailed" /\ ~Resolves(resp'[k])
  \/ st[k] = "Fetching" /\ st'[k] = "Writing" /\ Resolves(resp'[k])
  \/ st[k] = "Writing" /\ st'[k] \in {"WriteFailed", "Written"}

\* C11: every entry of the list moves only along Requested -> (Resolved) ->
\* Fetching -> FetchFailed, or Fetching -> (Fetched) -> Writing -> WriteFailed
\* or Written; it reaches Writing only with a fetch that resolved, and once
\* it is FetchFailed, WriteFailed or Written it never changes again.
C11_EntryStateMachine ==
  [][ /\ \A k \in DOMAIN st \cap DOMAIN st' : EntryStep(k)
      /\ \A k \in DOMAIN st : st[k] \in Terminal => k \in DOMAIN st' /\ st'[k] = st[k]
      /\ \A k \in DOMAIN st' \ DOMAIN st : st'[k] = "Requested" ]_vars

\* a finished call in which an entry failed at the fetch, a later entry was
\* written, and both stayed where they ended
C11_Witness ==
  /\ Finished
  /\ \E j, k \in Entries : j < k /\ st[j] = "FetchFailed" /\ st[k] = "Written"
  /\ \A k \in Entries : st[k] \in Terminal

\* the GET of entry k of the list
GetOf(k) == TEMPLATE_URL_BASE \o "/" \o getTemplateFilename(variant, names[k]) \o ".mdc"

\* C12: once the call is over, exactly one GET was issued per entry of the
\* list, in list order, to {TEMPLATE_URL_BASE}/{canonicalName}.mdc: n entries
\* (duplicates included) caused exactly n GETs, none repeated after a failed
\* fetch or a failed write.
C12_OneGetPerEntry ==
  Finished =>
    /\ Len(gets) = Len(names)
    /\ \A k \in Entries : gets[k] = GetOf(k)

\* the part of C12 that the loop keeps whatever happens: the GETs issued so
\* far are those of the first entries of the list, one each, in order
GetsFollowList ==
  /\ Len(gets) <= Len(names)
  /\ \A k \in 1..Len(gets) : gets[k] = GetOf(k)
  /\ (Finished /\ thrown = "") => Len(gets) = Len(names)

\* C13: getTemplateFilename returns, for every identifier that is a key of the
\* lookup object, the mapped kebab-case name, and for every identifier with no
\* entry of its own the identifier unchanged.
C13_MappedOrIdentity ==
  pc = "resolved" =>
    LET name == NameOf(arg)
    IN  /\ name \in DOMAIN MappingOf(variant) => ret = MappingOf(variant)[name]
        /\ name \notin DOMAIN MappingOf(variant) => ret = name

\* what the lookup does keep: own keys give their value, and every identifier
\* that names no inherited property of the object comes back unchanged
OwnKeyOrNoInheritedName ==
  pc = "resolved" =>
    LET name == NameOf(arg)
    IN  /\ name \in DOMAIN MappingOf(variant) => ret = MappingOf(variant)[name]
        /\ name \notin DOMAIN MappingOf(variant) \cup DOMAIN ObjectPrototype => ret = name

\* the canonical name is one path segment and its file is a direct child of
\* {cwd}/.cursor/rules
DirectChild(canonical) ==
  LET segs == SegmentsOf(canonical)
  IN  /\ Len(segs) = 1
      /\ segs[1] \notin {".", ".."}
      /\ WritePath(segs) = << "{cwd}", ".cursor", "rules", canonical \o ".mdc" >>

\* C14: every canonical name produced for an identifier passed to
\* fetchAndWriteTemplates is a single path segment (no separator, no '..'),
\* so the file written for it is a direct child of {cwd}/.cursor/rules.
C14_CanonicalNameIsOneSegment == pc = "resolved" => DirectChild(ret)

\* the identifiers a command line can pass: the keys of the declared options
\* and the entries of allTemplates
CliNames == { OptionKey(o) : o \in Options12 \cup OptionsAll } \cup Range(allTemplates)

\* for those the file is a direct child of the destination directory
CliNamesStayInside == (pc = "resolved" /\ NameOf(arg) \in CliNames) => DirectChild(ret)

\* the command line of the twelve options was given the flag of option o alone
Alone12(o) == caller = "cli" /\ cli = "twelve" /\ opts = OptsOf(<< OptionKey(o) >>)

\* C15: the twelve-option command line declares twelve options, and for each
\* of them --X alone passes the camelCase key of X, which getTemplateFilename
\* resolves back to X: the only GET is for {TEMPLATE_URL_BASE}/X.mdc, the only
\* file written is X.mdc, and a written X.mdc holds the fetched body.
C15_FlagAloneFetchesItsFile ==
  /\ Cardinality(Options12) = 12
  /\ \A o \in Options12 :
       (Alone12(o) /\ invoked) =>
         LET X == LongFlag(o)
         IN  /\ names = << OptionKey(o) >>
             /\ getTemplateFilename(variant, names[1]) = X
             /\ \A n \in 1..Len(gets) : gets[n] = TEMPLATE_URL_BASE \o "/" \o X \o ".mdc"
             /\ \A n \in 1..Len(writes) : FileOf(writes[n]) = X \o ".mdc"
             /\ st[1] \in {"Writing", "WriteFailed", "Written"} => Len(gets) = 1 /\ Len(writes) = 1
             /\ st[1] = "Written" => files[X \o ".mdc"] = resp[1].data
             /\ \A f \in AllFiles : f # X \o ".mdc" => files[f] = files0[f]

\* --TODO-tracking alone, fetched and written
C15_Witness ==
  /\ Alone12(<<"TODO", "tracking">>)
  /\ pc = "exited"
  /\ gets = << TEMPLATE_URL_BASE \o "/TODO-tracking.mdc" >>
  /\ st = << "Written" >>
  /\ files["TODO-tracking.mdc"] = resp[1].data
  /\ files0["TODO-tracking.mdc"] = NoFile
  /\ ~dir0

\* the command line that has --all was given the flag of option o alone
AloneAll(o) == caller = "cli" /\ cli = "all" /\ opts = OptsOf(<< OptionKey(o) >>)

\* C16: in the command line that has --all, the flag of a template alone
\* fetches the file its description names, X.mdc for --X, the file --all
\* fetches for it: --typescript-strict fetches typescript-strict.mdc and
\* --git-commit fetches git-commit.mdc.
C16_FlagFetchesDescribedFile ==
  \A o \in OptionsAll :
    (AloneAll(o) /\ invoked) =>
      /\ LongFlag(o) \in Range(allTemplates)
      /\ \A n \in 1..Len(gets) : gets[n] = TEMPLATE_URL_BASE \o "/" \o LongFlag(o) \o ".mdc"
      /\ \A n \in 1..Len(writes) : FileOf(writes[n]) = LongFlag(o) \o ".mdc"

\* the flags whose key is their own name, or has an entry in the lookup
\* object, do fetch the described file
SingleWordFlagsFetchDescribedFile ==
  \A o \in OptionsAll :
    (AloneAll(o) /\ invoked /\ (Len(o) = 1 \/ (variant # "plain" /\ OptionKey(o) \in DOMAIN MappingOf(variant)))) =>
      \A n \in 1..Len(gets) : gets[n] = TEMPLATE_URL_BASE \o "/" \o LongFlag(o) \o ".mdc"

\* how many times the list asks for the template named n
TimesRequested(n) == Cardinality({ k \in Entries : names[k] = n })

\* C17: in the command line that has --all, a run with --all passes each
\* template it declares an option for exactly once (feature,
\* typescript-strict, git-commit, security, performance, error-handling) and
\* nothing else, whatever other flags are given, and each GET it issues is for
\* the next of them; with or without --all, 'all' is never an entry of the
\* list.
C17_AllRequestsEachTemplateOnce ==
  (caller = "cli" /\ cli = "all" /\ invoked) =>
    /\ "all" \notin Range(names)
    /\ AllSelected(opts) =>
         /\ \A o \in OptionsAll : TimesRequested(LongFlag(o)) = 1
         /\ Len(names) = Cardinality(OptionsAll)
         /\ Range(names) = {"feature", "typescript-strict", "git-commit", "security",
                            "performance", "error-handling"}
         /\ Len(gets) <= Len(names)
         /\ \A k \in 1..Len(gets) : gets[k] = TEMPLATE_URL_BASE \o "/" \o names[k] \o ".mdc"
         /\ (pc = "exited" /\ exitCode = 0) => Len(gets) = Len(names)
    /\ ~AllSelected(opts) => names = [ k \in 1..Len(opts) |-> opts[k].key ]

\* --all together with another flag, all six templates fetched
C17_Witness ==
  /\ caller = "cli" /\ cli = "all"
  /\ AllSelected(opts)
  /\ Len(opts) = 2
  /\ pc = "exited"
  /\ Len(gets) = 6
  /\ \A k \in Entries : st[k] = "Written"

\* C18: the identifier "dev-workflow" resolves to the canonical name
\* "development-workflow": its fetch is for
\* {TEMPLATE_URL_BASE}/development-workflow.mdc, its file is
\* .cursor/rules/development-workflow.mdc, and not dev-workflow.mdc.
C18_DevWorkflowResolves ==
  (pc = "resolved" /\ NameOf(arg) = "dev-workflow") =>
    /\ ret = "development-workflow"
    /\ Url(variant, NameOf(arg)) = TEMPLATE_URL_BASE \o "/development-workflow.mdc"
    /\ WritePath(SegmentsOf(ret)) = << "{cwd}", ".cursor", "rules", "development-workflow.mdc" >>

\* C18 as the lookup object has it: the identifier "developmentWorkflow" (the
\* key of --development-workflow) resolves to "development-workflow", fetched
\* from {TEMPLATE_URL_BASE}/development-workflow.mdc and written to
\* .cursor/rules/development-workflow.mdc, and not developmentWorkflow.mdc;
\* "dev-workflow" has no entry and resolves to itself.
C18_DevelopmentWorkflowKeyResolves ==
  pc = "resolved" =>
    /\ NameOf(arg) = "developmentWorkflow" =>
         /\ ret = "development-workflow"
         /\ Url(variant, NameOf(arg)) = TEMPLATE_URL_BASE \o "/development-workflow.mdc"
         /\ WritePath(SegmentsOf(ret)) = << "{cwd}", ".cursor", "rules", "development-workflow.mdc" >>
    /\ NameOf(arg) = "dev-workflow" =>
         /\ ret = "dev-workflow"
         /\ Url(variant, NameOf(arg)) = TEMPLATE_URL_BASE \o "/dev-workflow.mdc"
         /\ WritePath(SegmentsOf(ret)) = << "{cwd}", ".cursor", "rules", "dev-workflow.mdc" >>

\* getTemplateFilename('developmentWorkflow') has returned
C18_Witness ==
  /\ pc = "resolved"
  /\ NameOf(arg) = "developmentWorkflow"
  /\ ret = "development-workflow"

\* C19: a directory that was absent is made before the first fetch or write
\* is attempted; once its creation has succeeded the directory is there at
\* every fetch, at every write attempt and after the call, even when every
\* fetch fails; when its creation fails nothing is fetched or written.
C19_DirectoryBeforeFirstFetch ==
  /\ (gets # << >> \/ writes # << >> \/ pc \in {"loop", "fetching", "writing"}) => dirExists
  /\ (invoked /\ pc # "call" /\ thrown # MkdirError) => dirExists
  /\ thrown = MkdirError => ~dir0 /\ ~dirExists /\ gets = << >> /\ writes = << >>

\* the directory was absent, every fetch of a list of two failed, and the
\* directory is there after the call
C19_Witness ==
  /\ ~dir0
  /\ Finished
  /\ Len(names) = 2
  /\ \A k \in Entries : st[k] = "FetchFailed"
  /\ writes = << >>
  /\ dirExists

\* C20: a call with the list of names alone (no second argument), in which no
\* fetch and no write fails, attempts every entry and writes each file with
\* its fetched content, in the variant that takes a spinner as in the
\* one-argument variants.
C20_NamesOnlyCallWritesAll ==
  (/\ caller = "direct"
   /\ ~spinner
   /\ Finished
   /\ thrown # MkdirError
   /\ \A k \in Entries : st[k] \notin {"FetchFailed", "WriteFailed"}) =>
    /\ Len(gets) = Len(names)
    /\ \A k \in Entries :
         /\ st[k] = "Written"
         /\ LastWriteOf(k) => files[FileOf(k)] = resp[k].data

\* the one-argument variant keeps it, and so does the spinner-taking variant
\* when it is given its spinner
WithItsArgumentsWritesAll ==
  (/\ caller = "direct"
   /\ variant = "aggregating" => spinner
   /\ Finished
   /\ thrown # MkdirError
   /\ \A k \in Entries : st[k] \notin {"FetchFailed", "WriteFailed"}) =>
    /\ Len(gets) = Len(names)
    /\ \A k \in Entries :
         /\ st[k] = "Written"
         /\ LastWriteOf(k) => files[FileOf(k)] = resp[k].data

(***************************************************************************)
(* C21..C30.                                                               *)
(***************************************************************************)

\* the entries whose fetch or write is under way
InFlight == { k \in DOMAIN st : st[k] \in {"Fetching", "Writing"} }

\* C21: entries are processed strictly one at a time: at every moment at
\* most one entry is in Fetching or Writing, and an entry has left Requested
\* only if every entry before it is FetchFailed, WriteFailed or Written.
C21_OneEntryAtATime ==
  /\ Cardinality(InFlight) <= 1
  /\ \A j, k \in DOMAIN st : (j < k /\ st[k] # "Requested") => st[j] \in Terminal
  /\ \A k \in InFlight : k = i /\ pc \in {"fetching", "writing"}

\* the second entry is being fetched after the first one failed
C21_Witness ==
  /\ Len(names) = 2
  /\ st[1] \in {"FetchFailed", "WriteFailed"}
  /\ st[2] = "Fetching"
  /\ Len(gets) = 2

\* the entries among the first k that got the report r, in list order
RECURSIVE ReportedAs(_, _)
ReportedAs(k, r) ==
  IF k = 0 THEN << >>
  ELSE IF rep[k] = r THEN Append(ReportedAs(k - 1, r), k)
  ELSE ReportedAs(k - 1, r)

\* C22: outcomes are produced in request order: at every moment the entries
\* that have their outcome are the first ones of the list, so for i < j the
\* outcome of i is there before that of j, whichever failed; the console
\* lines of the logging variant are those outcomes in list order, and
\* successes and errors of the aggregating variant each are in list order.
C22_OutcomesInRequestOrder ==
  /\ \A j, k \in DOMAIN rep : (j < k /\ rep[k] # "none") => rep[j] # "none"
  /\ variant # "aggregating" =>
       /\ successes = << >> /\ errors = << >>
       /\ \A k \in 1..Len(out) :
            /\ k \in DOMAIN rep
            /\ out[k].filename = FileOf(k)
            /\ out[k].ok = (rep[k] = "ok")
       /\ \A k \in DOMAIN rep : rep[k] # "none" => k <= Len(out)
  /\ variant = "aggregating" =>
       /\ out = << >>
       /\ successes = [ n \in 1..Len(ReportedAs(Len(rep), "ok")) |->
                          FileOf(ReportedAs(Len(rep), "ok")[n]) ]
       /\ [ n \in 1..Len(errors) |-> errors[n].filename ] =
            [ n \in 1..Len(ReportedAs(Len(rep), "fail")) |->
                          FileOf(ReportedAs(Len(rep), "fail")[n]) ]

\* the first entry failed, the second one was written, and the failure line
\* is the first of the two
C22_Witness ==
  /\ variant = "logging"
  /\ Len(names) = 2
  /\ FileOf(1) # FileOf(2)
  /\ st = << "FetchFailed", "Written" >>
  /\ Len(out) = 2
  /\ ~out[1].ok /\ out[1].filename = FileOf(1)
  /\ out[2].ok /\ out[2].filename = FileOf(2)

\* entry k is the only entry of the list for its file
OnlyEntryFor(k) == \A j \in Entries : j # k => FileOf(j) # FileOf(k)

\* what the write of entry k makes of its file when it ends as w
ContentAfter(k, w) ==
  IF w = "ok" THEN resp[k].data
  ELSE IF w = "EACCES: permission denied" THEN files0[FileOf(k)]
  ELSE Truncated

\* the outcome and the file of entry k are those its own response r and its
\* own write result w give, from the file as it was before the call
OwnOutcome(k) ==
  IF ~Resolves(resp[k])
    THEN /\ resp[k] # NoResponse
         /\ st[k] = "FetchFailed"
         /\ ReportedFail(k, resp[k].message)
         /\ files[FileOf(k)] = files0[FileOf(k)]
    ELSE \E w \in WriteResults :
           /\ st[k] = (IF w = "ok" THEN "Written" ELSE "WriteFailed")
           /\ IF w = "ok" THEN ReportedOk(k) ELSE ReportedFail(k, w)
           /\ files[FileOf(k)] = ContentAfter(k, w)

\* C23: the result of an entry does not depend on the other entries.  Once
\* the call is over, for an entry B that is the only one for its file, the
\* reported outcome of B and the content of B's file are determined by the
\* file as it was before the call, the server's response for B and the way
\* the write of B's file ended, whatever the other entries are and however
\* they fared: two runs that agree on those agree on B's outcome and file.
\* (Directory creation and the arguments of the call are shared by the two
\* runs: when the call ends before its loop B has no outcome in either.)
C23_ResultIndependentOfOtherEntries ==
  Finished =>
    \A k \in Entries :
      OnlyEntryFor(k) =>
        IF thrown \in {MkdirError, SpinnerError}
          THEN rep[k] = "none" /\ files[FileOf(k)] = files0[FileOf(k)]
          ELSE OwnOutcome(k)

\* B, the second entry, is written although the entry before it failed
C23_Witness ==
  /\ Finished
  /\ Len(names) = 2
  /\ FileOf(1) # FileOf(2)
  /\ st[1] \in {"FetchFailed", "WriteFailed"}
  /\ st[2] = "Written"
  /\ files[FileOf(2)] = resp[2].data

\* the call was given what its variant takes: the list, and for the variant
\* of two parameters the spinner
CalledWithItsArguments == variant = "aggregating" => spinner

\* every entry of the list is FetchFailed, WriteFailed or Written
AllTerminal == \A k \in Entries : st[k] \in Terminal

\* C24: when directory creation succeeds and every fetch and every write
\* returns in the end, every entry of the list reaches FetchFailed,
\* WriteFailed or Written and the call completes; no entry is passed over or
\* left unattempted because an earlier entry failed.
C24_EveryEntryReachesTerminal ==
  /\ (invoked /\ pc = "call" /\ CanEnsureDir /\ CalledWithItsArguments)
       ~> (Finished /\ AllTerminal)
  /\ []((Finished /\ thrown \notin {MkdirError, SpinnerError}) =>
          /\ AllTerminal
          /\ Len(gets) = Len(names))

\* a call that completed with every entry failed, two of them
C24_Witness ==
  /\ Finished
  /\ ~dir0 /\ dirExists
  /\ Len(names) = 2
  /\ \A k \in Entries : st[k] \in {"FetchFailed", "WriteFailed"}
  /\ st[2] = "WriteFailed"

\* the second call of the same list is over
SecondCallOver == run = 2 /\ pc \in {"returned", "threw"}

\* C25: directory creation is idempotent and a repeated call is harmless: a
\* call on a directory that exists does not fail at ensureDir, and the same
\* list called twice against unchanged server responses leaves the files the
\* first call left.
C25_SecondRunLeavesSameFiles ==
  /\ dirExists => thrown # MkdirError
  /\ (SecondCallOver /\ resp = first.resp) => files = first.files

\* every write of the second call ended as the write of the same entry did
\* in the first call: both calls report the same outcomes, with the same
\* error messages
SameWritesAsFirst == st = first.st /\ out = first.out /\ errors = first.errors

\* C25 with the writes taken into account: ensureDir on a directory that
\* exists is not an error, in a first call or in a second one, and the same
\* list called twice against unchanged server responses, every write of the
\* second call ending as it did in the first, leaves the files the first
\* call left; a write that fails in one call only leaves the file different.
C25_SecondRunSameWritesSameFiles ==
  /\ dirExists => thrown # MkdirError
  /\ (SecondCallOver /\ resp = first.resp /\ SameWritesAsFirst) => files = first.files

\* a list with a failed fetch and a written file, called twice with the same
\* outcome, in a directory the first call made
C25_Witness ==
  /\ SecondCallOver
  /\ ~dir0 /\ dirExists
  /\ Len(names) = 2
  /\ resp = first.resp
  /\ SameWritesAsFirst
  /\ st = << "FetchFailed", "Written" >>
  /\ files = first.files
  /\ files # files0

\* the entries that failed, at the fetch or at the write
Failed == { k \in Entries : st[k] \in {"FetchFailed", "WriteFailed"} }

\* what the aggregating variant throws and when, as claimed
ThrowsIffFailed ==
  /\ pc = "threw" <=> Failed # {}
  /\ pc = "threw" =>
       /\ AllTerminal
       /\ Len(errors) = Cardinality(Failed)
       /\ \A k \in Failed : \E n \in 1..Len(errors) : errors[n].filename = FileOf(k)
       /\ thrown = ErrorMessage(errors)
  /\ pc = "returned" => thrown = "" /\ \A k \in Entries : st[k] = "Written"

\* C26: a call of the aggregating variant throws if and only if at least one
\* entry failed, it throws only after every entry was attempted, the message
\* of the error names every failed filename with its error, and when no
\* entry failed the call returns normally.
C26_ThrowsIffAnItemFailed ==
  (variant = "aggregating" /\ Finished) => ThrowsIffFailed

\* once the loop has run to its end the aggregating variant does so
AfterLoopThrowsIffFailed ==
  (variant = "aggregating" /\ Finished /\ thrown \notin {MkdirError, SpinnerError}) =>
    ThrowsIffFailed

\* the files of the entries among the first k whose state is in S, in list order
RECURSIVE FilesOfEntriesIn(_, _)
FilesOfEntriesIn(k, S) ==
  IF k = 0 THEN << >>
  ELSE IF st[k] \in S THEN Append(FilesOfEntriesIn(k - 1, S), FileOf(k))
  ELSE FilesOfEntriesIn(k - 1, S)

\* the loop of the aggregating variant has run to its end
AfterLoop ==
  /\ variant = "aggregating"
  /\ invoked
  /\ \/ pc = "loop" /\ i > Len(names)
     \/ pc \in {"returned", "threw"} /\ thrown \notin {MkdirError, SpinnerError}

\* C27: in the aggregating variant, after the loop every entry of the list
\* is recorded in exactly one of successes and errors (their lengths sum to
\* the length of the list), a filename is in successes only for an entry
\* whose fetch and write both succeeded, successes is in request order, and
\* the list a call returns is the filenames of the whole list in that order.
C27_SuccessesAndErrorsPartitionList ==
  AfterLoop =>
    /\ Len(successes) + Len(errors) = Len(names)
    /\ \A k \in Entries : rep[k] \in {"ok", "fail"}
    /\ successes = FilesOfEntriesIn(Len(names), {"Written"})
    /\ [ n \in 1..Len(errors) |-> errors[n].filename ] =
         FilesOfEntriesIn(Len(names), {"FetchFailed", "WriteFailed"})
    /\ \A k \in Entries : st[k] = "Written" => Resolves(resp[k]) /\ rep[k] = "ok"
    /\ \A k \in Entries : rep[k] = "ok" => st[k] = "Written"
    /\ pc = "returned" => successes = [ k \in Entries |-> FileOf(k) ]

\* two entries for different files, both written, returned in list order
C27_Witness ==
  /\ variant = "aggregating"
  /\ pc = "returned"
  /\ Len(names) = 2
  /\ FileOf(1) # FileOf(2)
  /\ successes = << FileOf(1), FileOf(2) >>
  /\ errors = << >>

\* C28: across a call the only changes to the filesystem are the creation of
\* the destination directory and the creation or overwrite of the file of a
\* requested identifier whose fetch succeeded and whose write was started;
\* every other file, the .mdc files of templates not requested included, is
\* as it was, and no file and no directory is ever removed.
C28_OnlyRequestedFilesChange ==
  /\ dir0 => dirExists
  /\ dirExists # dir0 => invoked /\ pc # "call"
  /\ DOMAIN files = DOMAIN files0
  /\ \A f \in AllFiles :
       /\ files[f] # files0[f] =>
            \E k \in Entries :
              /\ FileOf(k) = f
              /\ Resolves(resp[k])
              /\ k \in Range(writes)
       /\ files0[f] # NoFile => files[f] # NoFile

\* a call that wrote the file of its entry next to a file that was there and
\* was not requested, which is as it was
C28_Witness ==
  /\ Finished
  /\ dir0
  /\ \E k \in Entries : st[k] = "Written" /\ files[FileOf(k)] # files0[FileOf(k)]
  /\ \E f \in AllFiles :
       /\ files0[f] = OldContent
       /\ \A k \in Entries : FileOf(k) # f
       /\ files[f] = OldContent

\* the option keys of the twelve-option command line
Keys12 == { OptionKey(o) : o \in Options12 }

\* C29: different identifiers the command line can produce resolve to
\* different canonical names (getTemplateFilename is injective on the option
\* keys), so two different selected flags never write the same file: in a run
\* the entries of the list have different files and no file is written
\* twice.  This does not extend to arbitrary strings: a camelCase key and its
\* kebab-case value are different identifiers with the same canonical name.
C29_DistinctFlagsDistinctFiles ==
  /\ Cardinality(Keys12) = 12
  /\ \A a, b \in Keys12 :
       a # b => getTemplateFilename(variant, a) # getTemplateFilename(variant, b)
  /\ (caller = "cli" /\ invoked) =>
       /\ \A j, k \in Entries : j # k => names[j] \in Keys12 /\ FileOf(j) # FileOf(k)
       /\ \A m, n \in 1..Len(writes) : m # n => FileOf(writes[m]) # FileOf(writes[n])
       /\ \A m \in 1..Len(gets) : gets[m] = TEMPLATE_URL_BASE \o "/" \o FileOf(m)
  /\ \A k \in DOMAIN MappingOf(variant) :
       /\ MappingOf(variant)[k] # k
       /\ getTemplateFilename(variant, MappingOf(variant)[k]) = getTemplateFilename(variant, k)

\* --component-standards --mobile-standards: two flags, two files written
C29_Witness ==
  /\ caller = "cli"
  /\ pc = "exited"
  /\ names = << "componentStandards", "mobileStandards" >>
  /\ st = << "Written", "Written" >>
  /\ files["component-standards.mdc"] = resp[1].data
  /\ files["mobile-standards.mdc"] = resp[2].data
  /\ files0["component-standards.mdc"] = NoFile
  /\ files0["mobile-standards.mdc"] = NoFile

\* C30: getTemplateFilename is idempotent: given back what it returned, it
\* returns the same again, for every identifier, because no value of the
\* lookup object is itself a key of it.
C30_ResolveTwiceIsResolveOnce ==
  /\ \A k \in DOMAIN MappingOf(variant) : MappingOf(variant)[k] \notin DOMAIN MappingOf(variant)
  /\ pc = "resolvedTwice" => ret = getTemplateFilename(variant, NameOf(arg))

\* getTemplateFilename(getTemplateFilename('developmentWorkflow')) has returned
C30_Witness ==
  /\ pc = "resolvedTwice"
  /\ NameOf(arg) = "developmentWorkflow"
  /\ ret = "development-workflow"

====
